---- MODULE Spec2Model ----
(***************************************************************************)
(* Model of the RAG Telegram bot: the resource lifecycle of bot.py         *)
(* (initialize_resources over init_vector_store and init_qa_chain) and the *)
(* request handler handle_message with its answer post-processing.         *)
(*                                                                         *)
(* The event loop is single threaded: a coroutine runs atomically between  *)
(* two awaits, so every action below is one such segment, or one run of a  *)
(* worker thread started by asyncio.to_thread.  initialize_resources and   *)
(* handle_message are module-level coroutines; the model lets their        *)
(* callers invoke them in any state of the resources.  Messages are        *)
(* dispatched as the Application built in main() dispatches them, one      *)
(* handler at a time.  The worker threads run init_vector_store            *)
(* (embeddings.py) and init_qa_chain (chains.py), whose bodies are the     *)
(* operators InitVectorStore, LoadModel and InitQaChain.                   *)
(*                                                                         *)
(* The specifications:                                                     *)
(*   Spec       the bot open to messages, initialize_resources called      *)
(*              again only after the previous call has returned;           *)
(*   SpecLive   Spec with the fairness of the event loop;                  *)
(*   SpecInit   the resource lifecycle under calls that may overlap;       *)
(*   SpecStages the stages of the initialization in every environment,     *)
(*              under calls that do not overlap;                           *)
(*   SpecFresh  Spec started without an index on disk;                     *)
(*   SpecReady  the handler in the READY state, on the texts and raw       *)
(*              outputs at the limits of validation and post-processing;   *)
(*   SpecDevice the choice of the compute device (intel_arc_optimization,  *)
(*              chains.py, chains_fixed.py) on every host;                 *)
(*   SpecCorpus one run of a corpus tool (load_documents.py or             *)
(*              reindex_chroma.py) over ./chroma_db.                       *)
(***************************************************************************)
EXTENDS Integers, Sequences, FiniteSets, TLC

\* Bounds of the model
MaxInits == 2          \* invocations of initialize_resources
MaxMsgs == 2           \* messages handled by handle_message

\* Program constants
MinQueryLen == 3
MaxQueryLen == 1000
MaxAnswerLen == 4000
MaxLoggedLen == 2000
TruncNoticeLen == 44

Inits == 1..MaxInits
Msgs == 1..MaxMsgs

None == "None"

(***************************************************************************)
(* Text.  A string is a sequence of atoms [k, n]: a run of n characters of *)
(* kind k.  "txt" is a run of ordinary non-blank characters, "ws" a run of *)
(* whitespace; the other kinds are the fixed pieces the post-processing of *)
(* handle_message searches for:                                            *)
(*   "im"   = "<|im_"      "start" = "start|>"     "end" = "end|>"         *)
(*   "asst" = "assistant"  "hdr"   = "# Роль и задачи ассистента"          *)
(* so that "<|im_start|>" is <<im, start>> and "<|im_end|>" is <<im, end>>.*)
(***************************************************************************)
Txt(n) == [k |-> "txt", n |-> n]
Ws(n) == [k |-> "ws", n |-> n]
Im == [k |-> "im", n |-> 5]
Start == [k |-> "start", n |-> 7]
End == [k |-> "end", n |-> 5]
Asst == [k |-> "asst", n |-> 9]
Hdr == [k |-> "hdr", n |-> 26]

ImStart == <<Im, Start>>
ImEnd == <<Im, End>>
AssistantTag == <<Im, Start, Asst>>
SystemHeader == <<Hdr>>

\* len(s): the number of characters of s
RECURSIVE Chars(_)
Chars(s) == IF s = <<>> THEN 0 ELSE Head(s).n + Chars(Tail(s))

IsPrefix(p, s) == Len(p) <= Len(s) /\ \A j \in DOMAIN p : s[j] = p[j]

Drop(s, c) == SubSeq(s, c + 1, Len(s))

\* the positions at which pattern p occurs in s
Occurrences(p, s) ==
    {j \in DOMAIN s : IsPrefix(p, Drop(s, j - 1))}

Contains(p, s) == Occurrences(p, s) # {}

Min(S) == CHOOSE x \in S : \A y \in S : x <= y
Max(S) == CHOOSE x \in S : \A y \in S : x >= y

\* str.split(p)[-1]: the text after the last occurrence of p
AfterLast(p, s) ==
    IF Contains(p, s)
    THEN Drop(s, Max(Occurrences(p, s)) + Len(p) - 1)
    ELSE s

\* str.split(p)[0]: the text before the first occurrence of p
BeforeFirst(p, s) ==
    IF Contains(p, s)
    THEN SubSeq(s, 1, Min(Occurrences(p, s)) - 1)
    ELSE s

\* str.replace(p, ""): one left-to-right pass removing the occurrences of p
RECURSIVE Remove(_, _)
Remove(p, s) ==
    IF s = <<>> THEN <<>>
    ELSE IF IsPrefix(p, s) THEN Remove(p, Drop(s, Len(p)))
    ELSE <<Head(s)>> \o Remove(p, Tail(s))

\* str.strip()
RECURSIVE LStrip(_)
LStrip(s) ==
    IF s = <<>> THEN <<>>
    ELSE IF Head(s).k = "ws" THEN LStrip(Tail(s)) ELSE s

RECURSIVE RStrip(_)
RStrip(s) ==
    IF s = <<>> THEN <<>>
    ELSE IF s[Len(s)].k = "ws"
         THEN RStrip(SubSeq(s, 1, Len(s) - 1)) ELSE s

Strip(s) == RStrip(LStrip(s))

\* re.sub(r'\s+', ' ', s): every maximal run of whitespace becomes one blank
RECURSIVE Collapse(_, _)
Collapse(s, afterWs) ==
    IF s = <<>> THEN <<>>
    ELSE IF Head(s).k = "ws"
         THEN (IF afterWs THEN <<>> ELSE <<Ws(1)>>) \o Collapse(Tail(s), TRUE)
         ELSE <<Head(s)>> \o Collapse(Tail(s), FALSE)

\* s[:c]; an atom cut in the middle leaves a run of ordinary characters
RECURSIVE Take(_, _)
Take(s, c) ==
    IF s = <<>> \/ c <= 0 THEN <<>>
    ELSE IF Head(s).n <= c THEN <<Head(s)>> \o Take(Tail(s), c - Head(s).n)
    ELSE <<[k |-> IF Head(s).k = "ws" THEN "ws" ELSE "txt", n |-> c]>>

TruncNotice == <<[k |-> "notice", n |-> TruncNoticeLen]>>

(***************************************************************************)
(* Answer post-processing of handle_message                                *)
(***************************************************************************)
\* answer = result.get("result", "").strip(), or str(result) when that is empty
RawAnswer(res) ==
    IF Strip(res.text) = <<>> THEN res.repr ELSE Strip(res.text)

\* keep what follows the last "<|im_start|>assistant"
AssistantPart(a) == AfterLast(AssistantTag, a)

\* answer.replace("<|im_start|>", "").replace("<|im_end|>", "").strip()
StripTags(a) == Strip(Remove(ImEnd, Remove(ImStart, a)))

\* cut an echoed system prompt
StripSystemPrompt(a) ==
    IF Contains(SystemHeader, a) THEN Strip(BeforeFirst(SystemHeader, a)) ELSE a

\* re.sub(r'\s+', ' ', answer).strip()
NormalizeSpaces(a) == Strip(Collapse(a, FALSE))

Sanitize(res) ==
    NormalizeSpaces(StripSystemPrompt(StripTags(AssistantPart(RawAnswer(res)))))

Truncated(a) == Chars(a) > MaxAnswerLen

\* Truncate with the cut one character late
TruncateOffByOne(a) ==
    IF Chars(a) > MaxAnswerLen THEN Take(a, MaxAnswerLen + 1) \o TruncNotice ELSE a

\* Truncate that marks an answer of exactly the maximum length
TruncateAtLimit(a) ==
    IF Chars(a) >= MaxAnswerLen THEN Take(a, MaxAnswerLen) \o TruncNotice ELSE a

Truncate(a) ==
    IF Chars(a) > MaxAnswerLen THEN Take(a, MaxAnswerLen) \o TruncNotice ELSE a

PostProcess(res) == Truncate(Sanitize(res))

(***************************************************************************)
(* State                                                                   *)
(***************************************************************************)
VARIABLES
    retriever,             \* bot.retriever: None or the retriever handle
    qa_chain,              \* bot.qa_chain: None or the chain
    is_initialized,        \* bot.is_initialized
    initialization_error,  \* bot.initialization_error
    vs_cache,              \* lru_cache of init_vector_store: <<>> or <<value>>
    llm_pipe,              \* chains._llm_pipe
    system_prompt,         \* chains._system_prompt
    chroma_db,             \* the persisted index directory ./chroma_db
    init,                  \* the invocations of initialize_resources
    msg,                   \* the invocations of handle_message
    host,                  \* the machine and the device chosen on it
    kb                     \* a run of a corpus tool on ./chroma_db

vars == <<retriever, qa_chain, is_initialized, initialization_error,
          vs_cache, llm_pipe, system_prompt, chroma_db, init, msg, host, kb>>

resVars == <<retriever, qa_chain, is_initialized, initialization_error,
             vs_cache, llm_pipe, system_prompt, chroma_db, init, host, kb>>

\* initialization_error = None
NoError == [stage |-> "none", exc |-> "none"]

\* the invocations that were called and have not returned
InFlight == {i \in Inits : init[i].pc \notin {"idle", "done"}}

\* no outcome yet
Pending == "pending"

\* the directory is missing, holds no file, holds an index that loads, or
\* holds files that do not load
DbStates == {"absent", "empty", "index", "corrupt"}

\* what ./chroma_db or its backup holds: nothing ("absent"), a directory
\* without files ("bare"), a Chroma store with the entries of its collection
\* ("store"), or files that do not make a store ("damaged")
Dir(kind, entries) == [kind |-> kind, entries |-> entries]

Absent == Dir("absent", <<>>)
Bare == Dir("bare", <<>>)
Damaged == Dir("damaged", <<>>)
Store(entries) == Dir("store", entries)

\* the state of the directory as init_vector_store tells it apart
DbState(d) ==
    CASE d.kind = "absent" -> "absent"
      [] d.kind = "bare" -> "empty"
      [] d.kind = "store" -> "index"
      [] OTHER -> "corrupt"

\* an entry of a collection: its id, the file it came from and its text
Entry(id, source, text) == [id |-> id, source |-> source, text |-> text]

\* the text "Initial empty document" that init_vector_store puts into a
\* collection it creates
InitialDocument == Entry(0, "none", <<Txt(7), Ws(1), Txt(5), Ws(1), Txt(8)>>)

\* the index of an earlier build of the corpus, and an older backup of it
OldStore == Store(<<Entry(1, "old", <<Txt(12)>>)>>)
StaleStore == Store(<<Entry(1, "stale", <<Txt(12)>>)>>)

\* no file has been read
NoRead == [enc |-> "none", tried |-> <<>>, read |-> FALSE]

\* no corpus tool is running: the directory as it is, no backup beside it.
\* A run of a tool records the directory it found (prev), the number of
\* files of the knowledge base and the file it is at, the documents it has
\* read, its last read, and the outcome it reported
NewKb(d) ==
    [tool |-> "none", pc |-> "idle", db |-> d, backup |-> Absent, prev |-> d,
     files |-> 0, at |-> 0, documents |-> <<>>, last |-> NoRead,
     moved |-> FALSE, shutil |-> FALSE, error |-> FALSE, ret |-> Pending]

\* the directory init_vector_store leaves, given the one it found and the
\* state it left it in: a directory it did not change holds what it held,
\* one it created holds nothing, a store it built holds the initial document
Content(found, state) ==
    IF DbState(found) = state THEN found
    ELSE CASE state = "absent" -> Absent
           [] state = "empty" -> Bare
           [] state = "index" -> Store(<<InitialDocument>>)
           [] OTHER -> Damaged

\* the content of the directory in each of its states before the bot runs
Initially(state) == IF state = "index" THEN OldStore ELSE Content(Absent, state)

\* no device has been chosen: the environment variable DEVICE, what torch and
\* the Intel extensions report, and the devices the three selections gave
NewHost(DEVICE, xpu, ipex, cuda, itrex, arc) ==
    [DEVICE |-> DEVICE, xpu |-> xpu, ipex |-> ipex, cuda |-> cuda,
     itrex |-> itrex, arc |-> arc,
     optimal |-> Pending, device |-> Pending, fixed |-> Pending]

\* the machine of the bot when the choice of the device is not looked at
CpuHost == NewHost("cpu", FALSE, FALSE, FALSE, FALSE, TRUE)

\* res, via, tries and persona describe the worker thread that has just
\* ended, until the coroutine has taken its outcome
NewInit == [pc |-> "idle", res |-> Pending, ret |-> Pending,
            qa |-> FALSE, overlap |-> FALSE,
            via |-> Pending, tries |-> <<>>, persona |-> Pending,
            loaded |-> FALSE]

NewMsg == [pc |-> "idle", query |-> <<>>, ready |-> FALSE,
           retr |-> FALSE, gen |-> FALSE, audit |-> FALSE,
           failed |-> "none", out |-> <<>>, replies |-> <<>>, log |-> <<>>,
           context |-> <<>>]

Init ==
    /\ retriever = None
    /\ qa_chain = None
    /\ is_initialized = FALSE
    /\ initialization_error = NoError
    /\ vs_cache = <<>>
    /\ llm_pipe = None
    /\ system_prompt = None
    /\ chroma_db \in DbStates
    /\ init = [i \in Inits |-> NewInit]
    /\ msg = [m \in Msgs |-> NewMsg]
    /\ host = CpuHost
    /\ kb = NewKb(Initially(chroma_db))

(***************************************************************************)
(* init_vector_store (embeddings.py)                                       *)
(***************************************************************************)
VSIE == "VectorStoreInitializationError"

\* what `await asyncio.to_thread(init_vector_store)` can give the caller: the
\* retriever, the VectorStoreInitializationError in which init_vector_store
\* wraps every exception, or an exception of the submission itself
IndexOutcomes == {"retriever", VSIE, "Exception"}

\* what the body of init_vector_store meets: whether os.makedirs, the load of
\* the embeddings model and the creation of a new database succeed, and what
\* a failed creation leaves in the directory
IndexEnvs == [dir : BOOLEAN, embed : BOOLEAN, build : BOOLEAN,
              left : {"empty", "corrupt"}]

\* db_exists = os.path.exists(persist_dir) and os.listdir(persist_dir)
DbExists(db) == db \in {"index", "corrupt"}

\* InitVectorStore where a failed load ends the call
InitVectorStoreNoRebuild(db, e) ==
    IF ~e.dir THEN [out |-> VSIE, via |-> "makedirs", db |-> db]
    ELSE LET d == IF db = "absent" THEN "empty" ELSE db IN
         IF ~e.embed THEN [out |-> VSIE, via |-> "embedder", db |-> d]
         ELSE IF DbExists(d)
         THEN IF d = "index" THEN [out |-> "retriever", via |-> "load", db |-> d]
              ELSE [out |-> VSIE, via |-> "load", db |-> d]
         ELSE IF e.build THEN [out |-> "retriever", via |-> "build", db |-> "index"]
         ELSE [out |-> VSIE, via |-> "build", db |-> e.left]

\* the body of init_vector_store on the directory db: its outcome, the stage
\* at which it ended, and the directory it leaves
InitVectorStore(db, e) ==
    IF ~e.dir THEN [out |-> VSIE, via |-> "makedirs", db |-> db]
    ELSE LET d == IF db = "absent" THEN "empty" ELSE db IN
         IF ~e.embed THEN [out |-> VSIE, via |-> "embedder", db |-> d]
         ELSE IF DbExists(d) /\ d = "index"
         THEN [out |-> "retriever", via |-> "load", db |-> d]
         ELSE LET stage == IF DbExists(d) THEN "rebuild" ELSE "build" IN
              IF e.build THEN [out |-> "retriever", via |-> stage, db |-> "index"]
              ELSE [out |-> VSIE, via |-> stage, db |-> e.left]

\* CacheAfter that stores failures too
CacheAfterAlways(out, cache) == <<out>>

\* lru_cache after a run of the body: a returned value is stored, an
\* exception is not
CacheAfter(out, cache) == IF out = "retriever" THEN <<out>> ELSE cache

(***************************************************************************)
(* init_qa_chain (chains.py)                                               *)
(***************************************************************************)
\* what init_llm_pipeline meets: whether intel_arc_optimization can be
\* imported, the device, ITREX_AVAILABLE, and the outcomes of the tokenizer
\* load, of the load with the optimized configuration, of the standard load
\* that follows its failure, and of the load of the ImportError branch
LoadEnvs == [arc : BOOLEAN, device : {"cpu", "xpu"}, itrex : BOOLEAN,
             tokenizer : BOOLEAN, optimized : BOOLEAN,
             standard : {"ok", "Exception", "ImportError"}, legacy : BOOLEAN]

\* the `except ImportError` branch: the quantized ITREX load on XPU, the
\* standard load otherwise, neither inside a try of its own
LegacyLoad(e, tried) ==
    [ok |-> e.legacy,
     tries |-> Append(tried, IF e.device = "xpu" /\ e.itrex
                             THEN "quantized" ELSE "standard")]

\* the loads init_llm_pipeline attempts, in order, and whether the last one
\* succeeded
LoadModel(e) ==
    IF ~e.tokenizer THEN [ok |-> FALSE, tries |-> <<>>]
    ELSE IF ~e.arc THEN LegacyLoad(e, <<>>)
    ELSE IF e.optimized THEN [ok |-> TRUE, tries |-> <<"optimized">>]
    ELSE IF e.standard = "ok" THEN [ok |-> TRUE, tries |-> <<"optimized", "standard">>]
    ELSE IF e.standard = "ImportError"
    THEN LegacyLoad(e, <<"optimized", "standard">>)
    ELSE [ok |-> FALSE, tries |-> <<"optimized", "standard">>]

\* the distinct ways a model load can go
LoadRuns == {LoadModel(e) : e \in LoadEnvs}

\* the call found the pipeline in _llm_pipe: nothing is loaded
NoLoad == [ok |-> TRUE, tries |-> <<>>]

\* the persona file knowledge_base/system_prompt.txt
PersonaFiles == {"readable", "missing", "unreadable"}

DefaultPersona == "default"

\* load_system_prompt without the default persona
load_system_prompt_no_default(cached, file) ==
    IF cached # None THEN cached
    ELSE IF file = "readable" THEN "persona" ELSE None

\* load_system_prompt: the cached prompt, the text of the file, or the
\* hardcoded default when the file cannot be read
load_system_prompt(cached, file) ==
    IF cached # None THEN cached
    ELSE IF file = "readable" THEN "persona" ELSE DefaultPersona

\* init_qa_chain from the call of init_llm_pipeline on: its outcome, the
\* stage at which it ended and the module globals it leaves.  cached tells
\* that init_llm_pipeline found _llm_pipe set
InitQaChain(cached, pipe, prompt, run, pipelineOk, file, chainOk) ==
    IF ~cached /\ ~run.ok
    THEN [out |-> "Exception", via |-> IF run.tries = <<>> THEN "tokenizer" ELSE "load",
          tries |-> run.tries, persona |-> Pending, loaded |-> FALSE,
          pipe |-> pipe, prompt |-> prompt]
    ELSE IF ~cached /\ ~pipelineOk
    THEN [out |-> "Exception", via |-> "pipeline",
          tries |-> run.tries, persona |-> Pending, loaded |-> FALSE,
          pipe |-> pipe, prompt |-> prompt]
    ELSE [out |-> IF chainOk THEN "chain" ELSE "Exception",
          via |-> IF chainOk THEN "returned" ELSE "chain",
          tries |-> run.tries,
          persona |-> IF prompt = None THEN file ELSE "cached",
          loaded |-> ~cached,
          pipe |-> "pipeline",
          prompt |-> load_system_prompt(prompt, file)]

(***************************************************************************)
(* The choice of the compute device (intel_arc_optimization.py, chains.py, *)
(* chains_fixed.py)                                                        *)
(***************************************************************************)
\* the values of the environment variable DEVICE; "" is the unset variable
DeviceSettings == {"", "cpu", "xpu", "cuda"}

Hosts ==
    {NewHost(d, xpu, ipex, cuda, itrex, arc) :
        d \in DeviceSettings, xpu \in BOOLEAN, ipex \in BOOLEAN,
        cuda \in BOOLEAN, itrex \in BOOLEAN, arc \in BOOLEAN}

\* IntelArcOptimizer._get_optimal_device, with the xpu_available and
\* ipex_available that __init__ has read
get_optimal_device(h) ==
    IF h.DEVICE = "cpu" THEN "cpu"
    ELSE IF h.DEVICE = "xpu" /\ h.xpu /\ h.ipex THEN "xpu"
    ELSE IF h.DEVICE = "cuda" /\ h.cuda THEN "cuda"
    ELSE IF h.xpu /\ h.ipex THEN "xpu"
    ELSE IF h.cuda THEN "cuda"
    ELSE "cpu"

\* the `device` of init_llm_pipeline in chains.py: "cpu" when DEVICE asks for
\* it, the device of the optimizer when intel_arc_optimization can be
\* imported, and otherwise DEVICE as it is set, or by default "xpu" when XPU
\* and ITREX are available and "cpu" when not
SelectDevice(h) ==
    IF h.DEVICE = "cpu" THEN "cpu"
    ELSE IF h.arc THEN h.optimal
    ELSE IF h.DEVICE # "" THEN h.DEVICE
    ELSE IF h.xpu /\ h.itrex THEN "xpu" ELSE "cpu"

\* the `device` of init_llm_pipeline in chains_fixed.py when the model is
\* loaded: DEVICE, "cpu" by default, turned into "cpu" when the device asked
\* for is not there or the Intel extension cannot be imported
SelectDeviceFixed(h) ==
    LET asked == IF h.DEVICE = "" THEN "cpu" ELSE h.DEVICE
        there == IF asked = "xpu" /\ ~h.xpu THEN "cpu"
                 ELSE IF asked = "cuda" /\ ~h.cuda THEN "cpu"
                 ELSE asked
    IN  IF there = "xpu" /\ ~h.ipex THEN "cpu" ELSE there

\* intel_arc_optimization is imported: the module builds its optimizer
IntelArcOptimizer ==
    /\ host.arc /\ host.optimal = Pending
    /\ host' = [host EXCEPT !.optimal = get_optimal_device(host)]
    /\ UNCHANGED <<retriever, qa_chain, is_initialized, initialization_error,
                   vs_cache, llm_pipe, system_prompt, chroma_db, init, msg, kb>>

\* init_llm_pipeline of chains.py chooses its device
init_llm_pipeline_device ==
    /\ host.device = Pending
    /\ (host.DEVICE # "cpu" /\ host.arc) => host.optimal # Pending
    /\ host' = [host EXCEPT !.device = SelectDevice(host)]
    /\ UNCHANGED <<retriever, qa_chain, is_initialized, initialization_error,
                   vs_cache, llm_pipe, system_prompt, chroma_db, init, msg, kb>>

\* init_llm_pipeline of chains_fixed.py chooses its device
init_llm_pipeline_fixed ==
    /\ host.fixed = Pending
    /\ host' = [host EXCEPT !.fixed = SelectDeviceFixed(host)]
    /\ UNCHANGED <<retriever, qa_chain, is_initialized, initialization_error,
                   vs_cache, llm_pipe, system_prompt, chroma_db, init, msg, kb>>

(***************************************************************************)
(* The corpus tools: DocumentLoader (load_documents.py) and reindex_chroma *)
(* (reindex_chroma.py).  Both replace ./chroma_db by a new store made from *)
(* the .md and .txt files of ./knowledge_base.                             *)
(***************************************************************************)
\* the files of the knowledge base a run handles
MaxFiles == 6

\* batch_size of load_documents_from_directory
BatchSize == 5

\* a file: how its bytes decode ("utf8", "cp1251" when only the fallback
\* decodes them, "binary" when neither does, "locked" when open() raises),
\* its text, and whether the collection can embed and add it
File(enc, text, embeds) == [enc |-> enc, text |-> text, embeds |-> embeds]

CorpusFiles ==
    { File("utf8", <<Txt(10)>>, TRUE),
      File("utf8", <<Txt(1001)>>, TRUE),
      File("utf8", <<Txt(10)>>, FALSE),
      File("utf8", <<>>, TRUE),
      File("cp1251", <<Txt(10)>>, TRUE),
      File("binary", <<Txt(10)>>, TRUE),
      File("locked", <<Txt(10)>>, TRUE) }

\* the read of one file by load_documents_from_directory: an empty file is
\* skipped unread; UTF-8 is tried, and cp1251 after a UnicodeDecodeError
LoaderRead(f) ==
    IF f.text = <<>>
    THEN [enc |-> f.enc, tried |-> <<>>, read |-> FALSE]
    ELSE IF f.enc = "locked"
    THEN [enc |-> f.enc, tried |-> <<"utf-8">>, read |-> FALSE]
    ELSE IF f.enc = "utf8"
    THEN [enc |-> f.enc, tried |-> <<"utf-8">>, read |-> TRUE]
    ELSE [enc |-> f.enc, tried |-> <<"utf-8", "cp1251">>, read |-> f.enc = "cp1251"]

\* the read of one file by reindex_chroma: UTF-8 only
ReindexRead(f) ==
    [enc |-> f.enc, tried |-> <<"utf-8">>, read |-> f.enc = "utf8"]

\* the document made of file number i
Document(i, f) == [id |-> i, source |-> i, text |-> f.text, embeds |-> f.embeds]

RECURSIVE Entries(_)
Entries(docs) ==
    IF docs = <<>> THEN <<>>
    ELSE <<Entry(docs[1].id, docs[1].source, docs[1].text)>> \o Entries(Tail(docs))

\* every step of a tool leaves chroma_db as the directory is
ToolStep(k) ==
    /\ kb' = k
    /\ chroma_db' = DbState(k.db)
    /\ UNCHANGED <<retriever, qa_chain, is_initialized, initialization_error,
                   vs_cache, llm_pipe, system_prompt, init, msg, host>>

\* DocumentLoader._restore_backup
RestoreBackup(k) ==
    IF k.backup.kind # "absent" THEN [k EXCEPT !.db = k.backup] ELSE k

\* main() of load_documents.py up to the end of initialize_database: the
\* directory is copied to the backup, removed and created again with an
\* empty collection; fail is the step that raises, after which the backup
\* is restored and False returned
initialize_database(fail) ==
    /\ kb.tool = "none"
    /\ fail \in {"backup", "rmtree"} => kb.db.kind # "absent"
    /\ LET k0 == [kb EXCEPT !.tool = "loader", !.prev = kb.db]
           copied == IF kb.db.kind = "absent" THEN k0
                     ELSE [k0 EXCEPT !.backup = IF fail = "backup" THEN Damaged
                                                ELSE kb.db]
           failed(k) == [RestoreBackup(k) EXCEPT !.pc = "done", !.ret = "False",
                                                 !.error = TRUE]
       IN  ToolStep(CASE fail = "backup" -> failed(copied)
                      [] fail = "rmtree" -> failed([copied EXCEPT !.db = Damaged])
                      [] fail = "client" -> failed([copied EXCEPT !.db = Bare])
                      [] OTHER -> [copied EXCEPT !.db = Store(<<>>),
                                                 !.pc = "initialized"])

\* load_documents_from_directory up to its loop: False when the directory
\* is missing or holds no .md or .txt file
load_documents_from_directory(dirOk, n) ==
    /\ kb.tool = "loader" /\ kb.pc = "initialized"
    /\ ToolStep(IF ~dirOk \/ n = 0
                THEN [kb EXCEPT !.pc = "done", !.ret = "False", !.error = TRUE]
                ELSE [kb EXCEPT !.pc = "reading", !.files = n, !.at = 1])

\* one turn of the loop over the files; after the last file, False when no
\* document was read
load_documents_read(f) ==
    /\ kb.tool = "loader" /\ kb.pc = "reading"
    /\ LET r == LoaderRead(f)
           docs == IF r.read THEN Append(kb.documents, Document(kb.at, f))
                   ELSE kb.documents
           k == [kb EXCEPT !.last = r, !.documents = docs, !.at = kb.at + 1]
       IN  ToolStep(IF kb.at < kb.files THEN k
                    ELSE IF docs = <<>>
                    THEN [k EXCEPT !.pc = "done", !.ret = "False", !.error = TRUE]
                    ELSE [k EXCEPT !.pc = "adding", !.at = 1, !.last = NoRead])

\* collection.add of one batch: it raises, and the batch is left out, when
\* one of its documents cannot be embedded; after the last batch the result
\* is success_count > 0
load_documents_add ==
    /\ kb.tool = "loader" /\ kb.pc = "adding"
    /\ LET last == Min({kb.at + BatchSize - 1, Len(kb.documents)})
           batch == SubSeq(kb.documents, kb.at, last)
           ok == \A j \in DOMAIN batch : batch[j].embeds
           k == [kb EXCEPT !.at = last + 1,
                           !.error = @ \/ ~ok,
                           !.db = IF ok THEN Store(@.entries \o Entries(batch)) ELSE @]
       IN  ToolStep(IF last < Len(kb.documents) THEN k
                    ELSE [k EXCEPT !.pc = "done",
                                   !.ret = IF k.db.entries # <<>> THEN "True"
                                           ELSE "False"])

\* the except clause of reindex_chroma: the backup is moved back; `shutil`
\* is a local name of the function, bound only when the import at the
\* removal of an older backup ran, so the removal of the new directory
\* raises an UnboundLocalError when it did not, and the error is logged only
ReindexRestore(k) ==
    IF k.backup.kind = "absent" THEN k
    ELSE IF k.db.kind # "absent" /\ ~k.shutil THEN k
    ELSE [k EXCEPT !.db = k.backup, !.backup = Absent]

\* reindex_chroma up to its loop: the directory is renamed to the backup
\* and created again with an empty collection; fail is the step that raises
\* or the missing knowledge base, n the number of files found
reindex_chroma(fail, n) ==
    /\ kb.tool = "none"
    /\ fail = "rmtree" => (kb.db.kind # "absent" /\ kb.backup.kind # "absent")
    /\ fail = "rename" => kb.db.kind # "absent"
    /\ LET k0 == [kb EXCEPT !.tool = "reindex", !.prev = kb.db,
                            !.shutil = kb.db.kind # "absent"
                                       /\ kb.backup.kind # "absent"]
           moved == IF kb.db.kind = "absent" THEN k0
                    ELSE [k0 EXCEPT !.backup = kb.db, !.db = Absent, !.moved = TRUE]
           returned(k) == [k EXCEPT !.pc = "done", !.error = TRUE]
       IN  ToolStep(CASE fail = "rmtree" -> returned([k0 EXCEPT !.backup = Damaged])
                      [] fail = "rename" -> returned([k0 EXCEPT !.backup = Absent])
                      [] fail = "makedirs" ->
                            [moved EXCEPT !.pc = "raised", !.error = TRUE]
                      [] fail = "client" ->
                            returned(ReindexRestore([moved EXCEPT !.db = Bare]))
                      [] fail = "knowledge" ->
                            returned([moved EXCEPT !.db = Store(<<>>)])
                      [] OTHER ->
                            [moved EXCEPT !.db = Store(<<>>), !.files = n, !.at = 1,
                                          !.pc = "indexing"])

\* one turn of the loop of reindex_chroma: the file is read and added, or
\* the exception of either is logged and the file left out
reindex_chroma_file(f) ==
    /\ kb.tool = "reindex" /\ kb.pc = "indexing" /\ kb.at <= kb.files
    /\ LET r == ReindexRead(f)
           ok == r.read /\ f.embeds
       IN  ToolStep([kb EXCEPT !.last = r, !.at = kb.at + 1,
                               !.error = @ \/ ~ok,
                               !.db = IF ok
                                      THEN Store(@.entries
                                                 \o Entries(<<Document(kb.at, f)>>))
                                      ELSE @])

\* the end of reindex_chroma: the count of the collection is logged; when
\* that raises the except clause restores the backup
reindex_chroma_end(ok) ==
    /\ kb.tool = "reindex" /\ kb.pc = "indexing" /\ kb.at > kb.files
    /\ ToolStep(IF ok THEN [kb EXCEPT !.pc = "done", !.last = NoRead]
                ELSE [ReindexRestore(kb) EXCEPT !.pc = "done", !.last = NoRead,
                                                !.error = TRUE])

(***************************************************************************)
(* initialize_resources                                                    *)
(***************************************************************************)
\* what `await asyncio.to_thread(init_qa_chain, retriever)` can give: the
\* chain or an exception
ChainOutcomes == {"chain", "Exception"}

\* entry of the coroutine up to its first await: the state reset and the
\* submission of init_vector_store to a worker thread
initialize_resources(i) ==
    /\ init[i].pc = "idle"
    /\ i > 1 => init[i - 1].pc # "idle"
    /\ is_initialized' = FALSE
    /\ initialization_error' = NoError
    /\ init' = [j \in Inits |->
                 IF j = i THEN [init[i] EXCEPT !.pc = "index_queued",
                                               !.overlap = InFlight # {}]
                 ELSE IF j \in InFlight THEN [init[j] EXCEPT !.overlap = TRUE]
                 ELSE init[j]]
    /\ UNCHANGED <<retriever, qa_chain, vs_cache, llm_pipe, system_prompt,
                   chroma_db, msg, host, kb>>

\* the call is handed to a worker thread, where lru_cache answers from the
\* cache when a value is stored and otherwise lets the body run; started is
\* false when the submission itself raises
init_vector_store_call(i, started) ==
    /\ init[i].pc = "index_queued"
    /\ IF ~started
       THEN init' = [init EXCEPT ![i].pc = "index_returned",
                                 ![i].res = "Exception", ![i].via = "to_thread"]
       ELSE IF vs_cache # <<>>
       THEN init' = [init EXCEPT ![i].pc = "index_returned",
                                 ![i].res = vs_cache[1], ![i].via = "cache"]
       ELSE init' = [init EXCEPT ![i].pc = "index_loading"]
    /\ UNCHANGED <<retriever, qa_chain, is_initialized, initialization_error,
                   vs_cache, llm_pipe, system_prompt, chroma_db, msg, host, kb>>

\* the body of init_vector_store runs to its end
init_vector_store_return(i, e) ==
    /\ init[i].pc = "index_loading"
    /\ LET run == InitVectorStore(chroma_db, e) IN
       /\ init' = [init EXCEPT ![i].pc = "index_returned",
                               ![i].res = run.out, ![i].via = run.via]
       /\ vs_cache' = CacheAfter(run.out, vs_cache)
       /\ chroma_db' = run.db
       /\ kb' = [kb EXCEPT !.db = Content(@, run.db)]
    /\ UNCHANGED <<retriever, qa_chain, is_initialized, initialization_error,
                   llm_pipe, system_prompt, msg, host>>

\* the index stage succeeded: a value came back and it is not None (the
\* test for None is the caller's; init_vector_store returns a retriever or
\* raises)
IndexOk(out) == out = "retriever"

\* the cause recorded when the index stage fails
IndexError(out) ==
    CASE out = VSIE ->
            [stage |-> "Failed to initialize vector store", exc |-> out]
      [] out = "None" ->
            [stage |-> "Unexpected error initializing vector store",
             exc |-> "Vector store initialization returned None"]
      [] OTHER ->
            [stage |-> "Unexpected error initializing vector store", exc |-> out]

\* AfterIndex without the early return of the except clauses
AfterIndexNoReturn(out) == "qa_queued"

\* where the coroutine goes after the index stage
AfterIndex(out) == IF IndexOk(out) THEN "qa_queued" ELSE "done"

\* the coroutine resumes with the outcome of init_vector_store
initialize_resources_index(i) ==
    /\ init[i].pc = "index_returned"
    /\ LET out == init[i].res IN
       /\ retriever' = IF out \in {"retriever", "None"} THEN out ELSE retriever
       /\ initialization_error' =
              IF IndexOk(out) THEN initialization_error ELSE IndexError(out)
       /\ init' = [init EXCEPT ![i].pc = AfterIndex(out),
                               ![i].res = Pending, ![i].via = Pending,
                               ![i].ret = IF AfterIndex(out) = "done"
                                          THEN "False" ELSE Pending]
    /\ UNCHANGED <<qa_chain, is_initialized, vs_cache, llm_pipe, system_prompt,
                   chroma_db, msg, host, kb>>

\* the worker thread enters init_qa_chain: init_llm_pipeline returns the
\* cached pipeline when there is one, otherwise it starts to load the model
init_qa_chain_call(i) ==
    /\ init[i].pc = "qa_queued"
    /\ IF llm_pipe # None
       THEN init' = [init EXCEPT ![i].pc = "chain_building", ![i].qa = TRUE]
       ELSE init' = [init EXCEPT ![i].pc = "model_loading", ![i].qa = TRUE]
    /\ UNCHANGED <<retriever, qa_chain, is_initialized, initialization_error,
                   vs_cache, llm_pipe, system_prompt, chroma_db, msg, host, kb>>

\* init_qa_chain ends: a model that was loaded is kept in _llm_pipe, the
\* prompt that was read in _system_prompt
init_qa_chain_return(i, run, pipelineOk, file, chainOk) ==
    /\ init[i].pc \in {"model_loading", "chain_building"}
    /\ LET r == InitQaChain(init[i].pc = "chain_building", llm_pipe,
                            system_prompt, run, pipelineOk, file, chainOk) IN
       /\ init' = [init EXCEPT ![i].pc = "qa_returned", ![i].res = r.out,
                               ![i].via = r.via, ![i].tries = r.tries,
                               ![i].persona = r.persona,
                               ![i].loaded = r.loaded]
       /\ llm_pipe' = r.pipe
       /\ system_prompt' = r.prompt
    /\ UNCHANGED <<retriever, qa_chain, is_initialized, initialization_error,
                   vs_cache, chroma_db, msg, host, kb>>

ChainOk(out) == out = "chain"

\* the cause recorded when the QA chain stage fails
ChainError(out) ==
    [stage |-> "Failed to initialize QA chain",
     exc |-> IF out = "None" THEN "QA chain initialization returned None" ELSE out]

\* ReadyAfterChain with the flag cleared by the except clause
ReadyAfterChainCleared(out, cur) == ChainOk(out)

\* is_initialized after the QA chain stage
ReadyAfterChain(out, cur) == IF ChainOk(out) THEN TRUE ELSE cur

\* the coroutine resumes with the outcome of init_qa_chain
initialize_resources_chain(i) ==
    /\ init[i].pc = "qa_returned"
    /\ LET out == init[i].res IN
       /\ qa_chain' = IF out \in {"chain", "None"} THEN out ELSE qa_chain
       /\ is_initialized' = ReadyAfterChain(out, is_initialized)
       /\ initialization_error' =
              IF ChainOk(out) THEN initialization_error ELSE ChainError(out)
       /\ init' = [init EXCEPT ![i].pc = "done", ![i].res = Pending,
                               ![i].via = Pending, ![i].tries = <<>>,
                               ![i].persona = Pending,
                               ![i].ret = IF ChainOk(out) THEN "True" ELSE "False"]
    /\ UNCHANGED <<retriever, vs_cache, llm_pipe, system_prompt, chroma_db, msg, host, kb>>

(***************************************************************************)
(* handle_message                                                          *)
(***************************************************************************)
\* one text for each outcome of the validation
CoreTexts == { <<>>, <<Txt(2)>>, <<Txt(3)>>, <<Txt(MaxQueryLen + 1)>> }

\* the message texts at the limits of the validation (update.message.text)
Texts == { <<>>,
           <<Ws(1), Txt(2)>>,
           <<Txt(3)>>,
           <<Txt(MaxQueryLen), Ws(1)>>,
           <<Txt(MaxQueryLen + 1)>> }

\* the raw outputs of the chain the post-processing is tried on
RawOutputs ==
    { <<Txt(5)>>,
      <<Im, Start, Txt(6), Im, End, Ws(1), Im, Start, Asst, Ws(1), Txt(8), Im, End>>,
      <<Txt(MaxAnswerLen)>>,
      <<Txt(MaxAnswerLen + 1)>>,
      <<Txt(MaxAnswerLen - 1), Ws(3), Txt(1)>>,
      <<Txt(4), Ws(1), Hdr, Ws(1), Txt(9)>>,
      <<Ws(2)>>,
      <<Txt(4), Im, Im, End, Start, Txt(4)>> }

\* str(result) of the dictionary the chain returned
ResultRepr == <<Txt(11), Ws(1), Txt(30)>>

\* what `await asyncio.to_thread(lambda: qa_chain(chain_input))` can give:
\* an exception, a falsy result, a result whose "result" is not a string,
\* or a result with a text
Results ==
    {[kind |-> k, text |-> <<>>, repr |-> <<>>] : k \in {"Exception", "empty", "malformed"}}
    \cup {[kind |-> "result", text |-> r, repr |-> ResultRepr] : r \in RawOutputs}

\* the outcomes of the sends one handler step makes to Telegram, in order; a
\* step sends again only after a send failed, so an outcome after a
\* successful send is never used and is fixed to TRUE
Sends(k) == {t \in [1..k -> BOOLEAN] : \A j \in 1..(k - 1) : t[j] => t[j + 1]}

\* the ways a chain call can end, with one short answer
CoreResults == {o \in Results : o.kind = "result" => o.text = <<Txt(5)>>}

\* a message sent to the user; ok tells whether Telegram accepted it
Reply(kind, detail, cause, text, ok) ==
    [kind |-> kind, detail |-> detail, cause |-> cause, text |-> text, ok |-> ok]

Template(kind, ok) == Reply(kind, "none", NoError, <<>>, ok)

\* NotReadyReply that never shows the cause
NotReadyReplyNoCause(err, ok) ==
    Reply("not_ready", "retry_later", NoError, <<>>, ok)

\* "Бот еще не инициализирован. " followed by the recorded cause or by the
\* advice to retry
NotReadyReply(err, ok) ==
    IF err # NoError
    THEN Reply("not_ready", "init_error", err, <<>>, ok)
    ELSE Reply("not_ready", "retry_later", NoError, <<>>, ok)

\* Validate with the lower limit off by one
ValidateOffByOne(query) ==
    IF query = <<>> THEN "empty_query"
    ELSE IF Chars(query) <= MinQueryLen THEN "too_short"
    ELSE IF Chars(query) > MaxQueryLen THEN "too_long"
    ELSE "ok"

\* the validation of the stripped query
Validate(query) ==
    IF query = <<>> THEN "empty_query"
    ELSE IF Chars(query) < MinQueryLen THEN "too_short"
    ELSE IF Chars(query) > MaxQueryLen THEN "too_long"
    ELSE "ok"

\* LogRow that stores the whole answer
LogRowWhole(m, query, answer) ==
    [user_id |-> m, query |-> query, response |-> answer]

\* the row of SessionLog written for an answer
LogRow(m, query, answer) ==
    [user_id |-> m, query |-> query, response |-> Take(answer, MaxLoggedLen)]

\* ErrorReply with the text of the exception in the message
ErrorReplyWithException(e, ok) ==
    Reply("generic_error", "exception", [stage |-> "handle_message", exc |-> e], <<>>, ok)

\* the reply of the outermost except clause
ErrorReply(e, ok) == Template("generic_error", ok)

\* Fail that leaves an audit record behind
FailLogged(r, stage, e, ok) ==
    [r EXCEPT !.pc = "done", !.failed = stage,
              !.log = <<[user_id |-> 0, query |-> r.query, response |-> <<>>]>>,
              !.replies = Append(@, ErrorReply(e, ok))]

\* the outermost except clause: the exception e raised at `stage` is logged
\* and the generic message is sent; a failure to send it is logged only
Fail(r, stage, e, ok) ==
    [r EXCEPT !.pc = "done", !.failed = stage,
              !.replies = Append(@, ErrorReply(e, ok))]

\* ReadyCheck that lets every message through
ReadyCheckSkipped(flag) == TRUE

\* is_initialized as the handler reads it on entry
ReadyCheck(flag) == flag

\* the messages whose handler has been entered and has not ended
Handling == {m \in Msgs : msg[m].pc \notin {"idle", "done", "raised"}}

\* main() builds the Application without concurrent_updates and registers
\* handle_message as a blocking handler: the application awaits the handler
\* of one update before it takes the next update from its queue
SequentialUpdates == Handling = {}

\* NotReadyReturns that holds the message back until the bot is ready
NotReadyWaits(flag) == flag

\* the not-ready branch ends when its one send has returned, whatever the
\* state of the resources is then
NotReadyReturns(flag) == TRUE

\* Gate that validates the text before it looks at the resources
GateValidationFirst(ready, verdict) ==
    IF verdict # "ok" THEN verdict ELSE IF ~ready THEN "not_ready" ELSE "ok"

\* the order of the checks on entry: `if not is_initialized` comes first and
\* returns, the text is read and validated only after it
Gate(ready, verdict) == IF ~ready THEN "not_ready" ELSE verdict

\* entry of the handler up to its first await: the send of the not-ready
\* reply, the send of a rejection, or the submission of the retrieval
handle_message(m, text, ok, ok2) ==
    /\ msg[m].pc = "idle"
    /\ m > 1 => msg[m - 1].pc # "idle"
    /\ SequentialUpdates
    /\ LET r == msg[m]
           query == Strip(text)
           gate == Gate(ReadyCheck(is_initialized), Validate(query))
       IN  msg' = [msg EXCEPT ![m] =
             IF gate = "not_ready"
             THEN [r EXCEPT !.pc = "replying",
                            !.out = <<NotReadyReply(initialization_error, FALSE)>>]
             ELSE IF gate # "ok"
             THEN [r EXCEPT !.pc = IF ok THEN "done" ELSE "raised",
                            !.ready = is_initialized, !.query = query,
                            !.replies = <<Template(gate, ok)>>]
             ELSE IF qa_chain = None
             THEN Fail([r EXCEPT !.ready = is_initialized, !.query = query],
                       "qa_chain", "QA chain not initialized", ok)
             ELSE IF ~ok
             THEN Fail([r EXCEPT !.ready = is_initialized, !.query = query,
                                 !.replies = <<Template("processing", FALSE)>>],
                       "notify", "TelegramError", ok2)
             ELSE [r EXCEPT !.pc = "retrieving", !.ready = is_initialized, !.query = query,
                            !.replies = <<Template("processing", TRUE)>>]]
    /\ UNCHANGED resVars

\* the send of the not-ready reply returns, or raises when ok is false, and
\* the handler ends
handle_message_replied(m, ok) ==
    /\ msg[m].pc = "replying"
    /\ NotReadyReturns(is_initialized)
    /\ msg' = [msg EXCEPT ![m].pc = IF ok THEN "done" ELSE "raised",
                          ![m].out = <<>>,
                          ![m].replies = <<[msg[m].out[1] EXCEPT !.ok = ok]>>]
    /\ UNCHANGED resVars

\* search_kwargs={"k": 5}: the retriever returns at most five documents
TopK == 5

\* retriever.get_relevant_documents(query) on the collection in d: up to
\* TopK of its entries, the initial document of a new collection among them
GetRelevantDocuments(d) ==
    SubSeq(d.entries, 1, Min({TopK, Len(d.entries)}))

\* "\n\n".join([doc.page_content for doc in docs])
RECURSIVE Context(_)
Context(docs) ==
    IF docs = <<>> THEN <<>>
    ELSE IF Len(docs) = 1 THEN docs[1].text
    ELSE docs[1].text \o <<Ws(2)>> \o Context(Tail(docs))

\* the retrieval thread ends, the handler joins the documents into the
\* context of chain_input and submits the chain call
handle_message_retrieved(m, out, ok) ==
    /\ msg[m].pc = "retrieving"
    /\ LET r == msg[m] IN
       msg' = [msg EXCEPT ![m] =
             IF retriever = None
             THEN Fail(r, "retrieval", "AttributeError", ok)
             ELSE IF out = "Exception"
             THEN Fail([r EXCEPT !.retr = TRUE], "retrieval", out, ok)
             ELSE [r EXCEPT !.pc = "generating", !.retr = TRUE,
                            !.context = Context(GetRelevantDocuments(kb.db))]]
    /\ UNCHANGED resVars

\* the audit try block: one write of a SessionLog row is attempted; when it
\* raises, the exception is logged and nothing else happens
Logged(r, m, answer, auditOk) ==
    [r EXCEPT !.gen = TRUE, !.audit = TRUE,
              !.log = IF auditOk THEN <<LogRow(m, r.query, answer)>> ELSE <<>>]

\* the answer is sent: edit_text, then the fallback reply, then the
\* outermost except clause
Send(r, answer, ok, ok2, ok3) ==
    LET sent == [r EXCEPT !.replies = Append(@, Reply("answer", "none", NoError,
                                                      answer, ok))]
    IN  IF ok THEN [sent EXCEPT !.pc = "done"]
        ELSE IF ok2
        THEN [sent EXCEPT !.pc = "done",
                          !.replies = Append(@, Template("send_error", TRUE))]
        ELSE Fail([sent EXCEPT !.replies = Append(@, Template("send_error", FALSE))],
                  "send", "TelegramError", ok3)

\* Deliver with an audit failure that reaches the outermost except clause
DeliverAuditFatal(r, m, answer, auditOk, ok, ok2, ok3) ==
    IF auditOk THEN Send(Logged(r, m, answer, TRUE), answer, ok, ok2, ok3)
    ELSE Fail(Logged(r, m, answer, FALSE), "audit", "SQLAlchemyError", ok)

\* the answer is logged and then sent
Deliver(r, m, answer, auditOk, ok, ok2, ok3) ==
    Send(Logged(r, m, answer, auditOk), answer, ok, ok2, ok3)

\* the chain call ends: post-processing, audit log and delivery
handle_message_generated(m, out, auditOk, ok, ok2, ok3) ==
    /\ msg[m].pc = "generating"
    /\ LET r == msg[m] IN
       msg' = [msg EXCEPT ![m] =
             IF qa_chain = None
             THEN Fail(r, "generation", "TypeError", ok)
             ELSE IF out.kind = "Exception"
             THEN Fail([r EXCEPT !.gen = TRUE], "generation", out.kind, ok)
             ELSE IF out.kind = "empty"
             THEN Fail([r EXCEPT !.gen = TRUE], "empty_result",
                       "QA chain returned no result", ok)
             ELSE IF out.kind = "malformed"
             THEN Fail([r EXCEPT !.gen = TRUE], "postprocess", "AttributeError", ok)
             ELSE Deliver(r, m, PostProcess(out), auditOk, ok, ok2, ok3)]
    /\ UNCHANGED resVars

(***************************************************************************)
(* The lifecycle state of the resources, read off the globals of bot.py    *)
(***************************************************************************)
ResourceState ==
    IF is_initialized THEN "READY"
    ELSE IF InFlight # {} THEN "INITIALIZING"
    ELSE IF initialization_error # NoError THEN "FAILED"
    ELSE "UNINITIALIZED"

\* the step is a call of initialize_resources
ExplicitInitCall == \E i \in Inits : init[i].pc = "idle" /\ init'[i].pc # "idle"

Last(s) == s[Len(s)]

Rejections == {"not_ready", "empty_query", "too_short", "too_long"}

PipelineUsed(r) == r.retr \/ r.gen \/ r.audit \/ r.log # <<>>

(***************************************************************************)
(* Properties                                                              *)
(***************************************************************************)

\* C1: at most one initialization is at work at any time: an invocation made
\* while an earlier one has not returned does not start an index load or a
\* model load of its own, so no two invocations are ever loading at once.
C1_SingleInitInFlight ==
    Cardinality({i \in Inits : init[i].pc \in {"index_loading", "model_loading"}}) <= 1

\* C2: is_initialized is true only if the retriever and the QA chain are
\* set and no initialization error is recorded.
C2_ReadyImpliesComplete ==
    is_initialized =>
        /\ retriever # None
        /\ qa_chain # None
        /\ initialization_error = NoError

\* C3: when the index stage of an invocation fails (VectorStoreInitialization-
\* Error, another exception, or a None retriever) the invocation returns
\* False at once with the cause recorded, it never starts the QA chain
\* stage, and (no other invocation having overlapped it) the state is FAILED;
\* the QA chain stage is only ever entered after a successful index stage.
C3_IndexFailureHalts ==
    [][\A i \in Inits :
        /\ (init[i].pc = "index_returned" /\ init'[i].pc # "index_returned"
              /\ init[i].res # "retriever") =>
             /\ init'[i].pc = "done"
             /\ init'[i].ret = "False"
             /\ ~init'[i].qa
             /\ initialization_error' # NoError
             /\ initialization_error'.stage \in
                   {"Failed to initialize vector store",
                    "Unexpected error initializing vector store"}
             /\ (~init[i].overlap => ResourceState' = "FAILED")
        /\ (init'[i].pc = "qa_queued" /\ init[i].pc # "qa_queued") =>
             (init[i].pc = "index_returned" /\ init[i].res = "retriever")
        /\ (init'[i].qa /\ ~init[i].qa) => init[i].pc = "qa_queued"
        /\ init[i].pc = "done" => init'[i] = init[i]
      ]_vars

C3_Witness ==
    \E i \in Inits :
        /\ init[i].pc = "done" /\ init[i].ret = "False" /\ ~init[i].qa
        /\ initialization_error.exc = VSIE
        /\ ResourceState = "FAILED"

\* C4: the lifecycle only moves forward (UNINITIALIZED to INITIALIZING to
\* READY or FAILED) except through an explicit call of initialize_resources:
\* READY is left only by the reset such a call performs, FAILED is left only
\* by such a call and then for INITIALIZING, and UNINITIALIZED is never
\* entered again.
C4_OneDirectional ==
    [][/\ (ResourceState = "READY" /\ ResourceState' # "READY") =>
             (ExplicitInitCall /\ ResourceState' = "INITIALIZING")
       /\ (ResourceState = "FAILED" /\ ResourceState' # "FAILED") =>
             (ExplicitInitCall /\ ResourceState' = "INITIALIZING")
       /\ (ResourceState = "INITIALIZING") =>
             ResourceState' \in {"INITIALIZING", "READY", "FAILED"}
       /\ (ResourceState = "UNINITIALIZED") =>
             ResourceState' \in {"UNINITIALIZED", "INITIALIZING"}
       /\ (ResourceState = "UNINITIALIZED" /\ ResourceState' = "INITIALIZING") =>
             ExplicitInitCall
      ]_vars

C4_Witness ==
    /\ ResourceState = "READY"
    /\ init[1].pc = "done" /\ init[1].ret = "False"
    /\ init[2].pc = "done" /\ init[2].ret = "True" /\ ~init[2].overlap

\* C5: retrieval, generation and audit logging happen for a message only if
\* the handler found the state READY and the stripped question non-empty and
\* between 3 and 1000 characters; a rejected message gets its one rejection
\* reply and no pipeline invocation.
C5_PipelineOnlyWhenReadyAndValid ==
    \A m \in Msgs :
        LET r == msg[m] IN
        /\ (PipelineUsed(r) \/ r.pc \in {"retrieving", "generating"}) =>
              /\ r.ready
              /\ r.query # <<>>
              /\ Chars(r.query) >= 3
              /\ Chars(r.query) <= 1000
        /\ (r.replies # <<>> /\ r.replies[1].kind \in Rejections) =>
              /\ ~PipelineUsed(r)
              /\ Len(r.replies) = 1
              /\ r.pc \in {"done", "raised"}

C5_Witness ==
    \E m \in Msgs :
        /\ msg[m].pc = "done" /\ msg[m].retr /\ msg[m].gen /\ msg[m].audit
        /\ msg[m].log # <<>>
        /\ Last(msg[m].replies).kind = "answer"

\* C6: a message handled while is_initialized is false gets, as the only
\* thing the handler does, the not-ready reply, which shows the recorded
\* initialization error exactly when one is recorded and otherwise asks to
\* retry later.
C6_NotReadyReply ==
    [][\A m \in Msgs :
        /\ (msg[m].pc = "idle" /\ msg'[m].pc # "idle" /\ ~is_initialized) =>
            /\ msg'[m].pc = "replying"
            /\ ~PipelineUsed(msg'[m])
            /\ msg'[m].replies = <<>>
            /\ Len(msg'[m].out) = 1
            /\ LET reply == msg'[m].out[1] IN
               /\ reply.kind = "not_ready"
               /\ (initialization_error # NoError) =>
                     (reply.detail = "init_error" /\ reply.cause = initialization_error)
               /\ (initialization_error = NoError) =>
                     (reply.detail = "retry_later" /\ reply.cause = NoError)
        /\ (msg[m].pc = "replying" /\ msg'[m].pc # "replying") =>
            /\ msg'[m].pc \in {"done", "raised"}
            /\ ~PipelineUsed(msg'[m])
            /\ Len(msg'[m].replies) = 1
            /\ msg'[m].replies[1].kind = msg[m].out[1].kind
            /\ msg'[m].replies[1].detail = msg[m].out[1].detail
            /\ msg'[m].replies[1].cause = msg[m].out[1].cause
      ]_vars

C6_Witness ==
    \E m \in Msgs :
        /\ msg[m].pc = "done"
        /\ msg[m].replies[1].kind = "not_ready"
        /\ msg[m].replies[1].detail = "init_error"
        /\ msg[m].replies[1].cause = initialization_error
        /\ ResourceState = "FAILED"

\* C7: in READY state a question passes validation exactly when its stripped
\* length is between 3 and 1000 characters inclusive (2 and 1001 are
\* rejected, 3 and 1000 accepted), and the empty question is rejected as
\* empty.
C7_ValidationBoundaries ==
    \A m \in Msgs :
        LET r == msg[m]
            n == Chars(r.query)
        IN  (r.ready /\ r.replies # <<>>) =>
              /\ (r.replies[1].kind \notin {"empty_query", "too_short", "too_long"})
                    <=> (n >= 3 /\ n <= 1000)
              /\ (r.replies[1].kind = "empty_query") <=> (n = 0)
              /\ (r.replies[1].kind = "too_short") <=> (n > 0 /\ n < 3)
              /\ (r.replies[1].kind = "too_long") <=> (n > 1000)

C7_Witness ==
    \E m \in Msgs :
        /\ msg[m].ready
        /\ Chars(msg[m].query) = 3
        /\ msg[m].replies[1].kind = "processing"
        /\ msg[m].pc = "generating"

\* C8: an exception raised at a pipeline stage of a validated, ready query is
\* caught: the handler ends normally and the last thing it sends is the one
\* generic failure message, which carries no text of the exception.
C8_GenericFailureOnly ==
    \A m \in Msgs :
        LET r == msg[m] IN
        (r.failed # "none") =>
            /\ r.pc = "done"
            /\ Last(r.replies) = [kind |-> "generic_error", detail |-> "none",
                                  cause |-> NoError, text |-> <<>>,
                                  ok |-> Last(r.replies).ok]
            /\ Cardinality({j \in DOMAIN r.replies :
                              r.replies[j].kind = "generic_error"}) = 1
            /\ (r.failed # "send" =>
                   \A j \in DOMAIN r.replies :
                       r.replies[j].kind \in {"processing", "generic_error"})

C8_Witness ==
    \E m \in Msgs :
        /\ msg[m].failed = "generation" /\ msg[m].gen
        /\ msg[m].pc = "done"
        /\ Last(msg[m].replies).kind = "generic_error"
        /\ Last(msg[m].replies).ok

\* C9: no message sent to a user contains the text of an internal exception,
\* the not-ready reply that shows the initialization cause included.
C9_NoExceptionText ==
    \A m \in Msgs : \A j \in DOMAIN msg[m].replies :
        msg[m].replies[j].cause.exc = "none"

\* C10 (as stated): the answer delivered is never longer than 4000 characters.
C10_AnswerWithinMax ==
    \A m \in Msgs : \A j \in DOMAIN msg[m].replies :
        msg[m].replies[j].kind = "answer" => Chars(msg[m].replies[j].text) <= 4000

\* C10 (amended): the answer delivered is never longer than 4000 characters
\* plus the 44 characters of the truncation notice: an answer that was cut
\* is its first 4000 characters followed by the notice, 4044 in all, and one
\* that was not cut is at most 4000 characters long.
C10_AnswerWithinMaxPlusNotice ==
    \A m \in Msgs : \A j \in DOMAIN msg[m].replies :
        LET a == msg[m].replies[j].text IN
        msg[m].replies[j].kind = "answer" =>
            /\ Chars(a) <= 4000 + 44
            /\ Chars(a) > 4000 =>
                  /\ Last(a).k = "notice"
                  /\ Chars(a) = 4044

C10_Witness ==
    \E m \in Msgs : \E j \in DOMAIN msg[m].replies :
        /\ msg[m].replies[j].kind = "answer"
        /\ msg[m].replies[j].ok
        /\ Chars(msg[m].replies[j].text) = 4044

\* a template marker occurs in the text
HasMarker(a) == Contains(ImStart, a) \/ Contains(ImEnd, a)

\* C11: whatever the chain returned, the answer sent to the user contains
\* neither "<|im_start|>" nor "<|im_end|>".
C11_NoTemplateMarker ==
    \A m \in Msgs : \A j \in DOMAIN msg[m].replies :
        msg[m].replies[j].kind = "answer" => ~HasMarker(msg[m].replies[j].text)

\* the answers sent for message m, whether or not Telegram accepted them
Answers(r) == {j \in DOMAIN r.replies : r.replies[j].kind = "answer"}

\* C12: when the audit write raises, the handler goes on exactly as when it
\* succeeds: the same answer is sent, the same replies follow, and the only
\* difference is the missing record; no failure message is caused by the
\* audit error (one is sent only when the answer and the fallback reply
\* could both not be sent).
C12_AuditFailureSwallowed ==
    [][\A m \in Msgs :
        (msg[m].pc = "generating" /\ msg'[m].audit /\ msg'[m].log = <<>>) =>
            LET r == msg'[m] IN
            /\ Cardinality(Answers(r)) = 1
            /\ r.failed \in {"none", "send"}
            /\ \A j \in Answers(r) :
                  /\ j = 2
                  /\ r.replies[j].ok => (r.failed = "none" /\ Len(r.replies) = 2)
                  /\ \E out \in Results, tg \in Sends(3) :
                        /\ out.kind = "result"
                        /\ r.replies[j].text = PostProcess(out)
                        /\ Deliver(msg[m], m, PostProcess(out), TRUE,
                                   tg[1], tg[2], tg[3])
                             = [r EXCEPT !.log = <<LogRow(m, r.query,
                                                          PostProcess(out))>>]
      ]_vars

C12_Witness ==
    \E m \in Msgs :
        /\ msg[m].audit /\ msg[m].log = <<>>
        /\ msg[m].pc = "done" /\ msg[m].failed = "none"
        /\ Last(msg[m].replies).kind = "answer"
        /\ Last(msg[m].replies).ok

\* C13 (as stated): the audit sink holds one record for each successfully
\* answered query and none for a query that was rejected or whose pipeline
\* raised.
C13_OneRecordPerAnswer ==
    \A m \in Msgs :
        LET r == msg[m] IN
        /\ (\E j \in Answers(r) : r.replies[j].ok) =>
              (Len(r.log) = 1 /\ r.log[1].user_id = m /\ r.log[1].query = r.query)
        /\ (r.replies # <<>> /\ r.replies[1].kind \in Rejections) => r.log = <<>>
        /\ (r.failed \notin {"none", "send"}) => r.log = <<>>

\* C13 (amended): one audit write is attempted for a query exactly when its
\* answer was produced, before the answer is sent; the sink then holds one
\* record (user id, question, the first 2000 characters of the answer) if the
\* write succeeded and none if it raised; no write is attempted, and no
\* record exists, for a query that was rejected as not-ready or invalid or
\* whose pipeline raised.
C13_OneWritePerAnswer ==
    \A m \in Msgs :
        LET r == msg[m] IN
        /\ r.audit <=> Answers(r) # {}
        /\ Len(r.log) <= 1
        /\ r.log # <<>> => r.audit
        /\ \A j \in Answers(r) :
              r.log \in {<<>>, <<[user_id |-> m, query |-> r.query,
                                  response |-> Take(r.replies[j].text, 2000)]>>}
        /\ (r.replies # <<>> /\ r.replies[1].kind \in Rejections) =>
              (~r.audit /\ r.log = <<>>)
        /\ (r.failed \notin {"none", "send"}) => (~r.audit /\ r.log = <<>>)

C13_Witness ==
    \E m \in Msgs :
        /\ msg[m].pc = "done" /\ msg[m].failed = "none"
        /\ Len(msg[m].log) = 1
        /\ msg[m].log[1].response = Last(msg[m].replies).text
        /\ Last(msg[m].replies).kind = "answer"
        /\ Last(msg[m].replies).ok

\* C14: in init_vector_store an absent or empty index directory leads to a
\* fresh build and a present index that does not load leads to a rebuild; the
\* call ends with an error only when os.makedirs, the embeddings model or the
\* build itself fails, never at the load.
C14_LoadFailureRebuilds ==
    [][\A i \in Inits :
        (init[i].pc = "index_loading" /\ init'[i].pc = "index_returned") =>
            LET via == init'[i].via
                out == init'[i].res
            IN  /\ (chroma_db \in {"absent", "empty"} /\ via \notin {"makedirs", "embedder"})
                      => via = "build"
                /\ (chroma_db = "corrupt" /\ via \notin {"makedirs", "embedder"})
                      => via = "rebuild"
                /\ via = "load" => (chroma_db = "index" /\ out = "retriever")
                /\ via \in {"build", "rebuild"} =>
                      \/ out = "retriever" /\ chroma_db' = "index"
                      \/ out = VSIE
                /\ out = VSIE => via \in {"makedirs", "embedder", "build", "rebuild"}
      ]_vars

C14_Witness ==
    \E i \in Inits :
        /\ init[i].pc = "index_returned"
        /\ init[i].via = "rebuild"
        /\ init[i].res = "retriever"
        /\ chroma_db = "index"

\* C15: when the persona file is missing or unreadable load_system_prompt
\* gives the hardcoded default persona and raises nothing: init_qa_chain then
\* ends as it does with a readable file, with the chain unless the
\* construction of the chain itself fails.
C15_DefaultPersona ==
    [][\A i \in Inits :
        (init[i].pc \in {"model_loading", "chain_building"}
            /\ init'[i].pc = "qa_returned") =>
            LET r == init'[i] IN
            /\ r.persona \in {"missing", "unreadable"} =>
                  /\ system_prompt = None
                  /\ system_prompt' = DefaultPersona
                  /\ r.via \in {"returned", "chain"}
            /\ r.persona = "readable" => system_prompt' = "persona"
            /\ r.persona # Pending => system_prompt' # None
            /\ r.via = "returned" <=> r.res = "chain"
            /\ r.res = "Exception" => r.via \in {"tokenizer", "load", "pipeline", "chain"}
      ]_vars

C15_Witness ==
    /\ is_initialized
    /\ qa_chain = "chain"
    /\ system_prompt = DefaultPersona
    /\ \E i \in Inits : init[i].pc = "done" /\ init[i].ret = "True"

\* C16: the model is loaded at most once per process: at most one invocation
\* ever constructs a pipeline, every other one gets the cached one.
C16_PipelineLoadedOnce ==
    Cardinality({i \in Inits : init[i].loaded}) <= 1

\* C17: a failed load with quantization or accelerator optimization is always
\* followed by an unoptimized load, so that init_llm_pipeline fails at the
\* model load only when an unoptimized load has failed.
C17_FallbackToUnoptimized ==
    \A i \in Inits :
        init[i].pc = "qa_returned" =>
            LET t == init[i].tries IN
            \A k \in DOMAIN t :
                (t[k] # "standard" /\ (k < Len(t) \/ init[i].via = "load")) =>
                    \E k2 \in DOMAIN t : k2 > k /\ t[k2] = "standard"

\* C19: FAILED is recoverable.  A call of initialize_resources made after a
\* call that returned False leaves FAILED for INITIALIZING with the cause
\* cleared; no failure of init_vector_store is ever answered from its cache,
\* so after a failed index stage the body runs again (or the retriever of an
\* earlier success is reused); and when the QA chain stage of the call
\* succeeds the state is READY with no cause recorded.
C19_FailedIsRecoverable ==
    [][/\ (ResourceState = "FAILED" /\ initialization_error.exc = VSIE) =>
              vs_cache = <<>>
       /\ \A i \in Inits :
            (i > 1 /\ init[i - 1].ret = "False") =>
              /\ (init[i].pc = "idle" /\ init'[i].pc # "idle") =>
                    /\ ResourceState = "FAILED"
                    /\ ResourceState' = "INITIALIZING"
                    /\ initialization_error' = NoError
              /\ (init[i].pc = "index_queued" /\ init'[i].pc # "index_queued") =>
                    /\ vs_cache = <<>> =>
                          (init'[i].pc = "index_loading" \/ init'[i].via = "to_thread")
                    /\ init'[i].via = "cache" => init'[i].res = "retriever"
              /\ (init[i].pc = "qa_returned" /\ init'[i].pc = "done"
                    /\ init[i].res = "chain") =>
                    /\ ResourceState' = "READY"
                    /\ initialization_error' = NoError
                    /\ retriever' = "retriever" /\ qa_chain' = "chain"
                    /\ init'[i].ret = "True"
      ]_vars

C19_Witness ==
    /\ ResourceState = "READY"
    /\ initialization_error = NoError
    /\ chroma_db = "index"
    /\ init[1].pc = "done" /\ init[1].ret = "False" /\ ~init[1].qa
    /\ init[2].pc = "done" /\ init[2].ret = "True" /\ init[2].loaded

C20_FrontEndTakesNextMessage ==
    \A m \in Msgs :
        (m > 1 /\ msg[m - 1].pc \in {"retrieving", "generating"}
            /\ msg[m].pc = "idle") =>
            ENABLED (\E text \in CoreTexts, tg \in Sends(2) :
                        handle_message(m, text, tg[1], tg[2]))

\* C27: the truncation notice is put on an answer exactly when the sanitized
\* output of the chain is longer than 4000 characters: such an answer is its
\* first 4000 characters followed by the notice, and an output of 4000
\* characters or fewer is sent as it is, without the notice.
C27_NoticeIffTooLong ==
    [][\A m \in Msgs :
        (msg[m].pc = "generating" /\ Answers(msg'[m]) # {}) =>
            \A j \in Answers(msg'[m]) :
                LET a == msg'[m].replies[j].text IN
                /\ \E out \in Results : out.kind = "result" /\ a = PostProcess(out)
                /\ \A out \in Results :
                      (out.kind = "result" /\ a = PostProcess(out)) =>
                          LET s == Sanitize(out) IN
                          /\ (a # <<>> /\ Last(a).k = "notice") <=> Chars(s) > 4000
                          /\ Chars(s) <= 4000 => a = s
                          /\ Chars(s) > 4000 => a = Take(s, 4000) \o TruncNotice
      ]_vars

C27_Witness ==
    \E m1, m2 \in Msgs :
        /\ msg[m1].pc = "done" /\ msg[m2].pc = "done"
        /\ \E j \in Answers(msg[m1]) :
              /\ msg[m1].replies[j].ok
              /\ Chars(msg[m1].replies[j].text) = 4000
              /\ Last(msg[m1].replies[j].text).k # "notice"
        /\ \E j \in Answers(msg[m2]) :
              /\ msg[m2].replies[j].ok
              /\ Last(msg[m2].replies[j].text).k = "notice"

\* C29: the handler looks at is_initialized before it looks at the text: a
\* message that arrives while the bot is not ready gets the not-ready reply
\* whatever its text is, its text is not validated, and a rejection of the
\* text (empty, too short, too long) is only ever sent by a handler that
\* found the bot ready.
C29_ReadinessBeforeValidation ==
    [][\A m \in Msgs :
        (msg[m].pc = "idle" /\ msg'[m].pc # "idle") =>
            /\ ~is_initialized =>
                  /\ msg'[m].pc = "replying"
                  /\ Len(msg'[m].out) = 1 /\ msg'[m].out[1].kind = "not_ready"
                  /\ msg'[m].replies = <<>>
                  /\ msg'[m].query = <<>>
            /\ (msg'[m].replies # <<>> /\ msg'[m].replies[1].kind
                    \in {"empty_query", "too_short", "too_long"}) =>
                  (is_initialized /\ msg'[m].ready)
            /\ is_initialized => msg'[m].pc # "replying"
      ]_vars

C29_Witness ==
    \E m1, m2 \in Msgs :
        /\ msg[m1].pc = "done" /\ ~msg[m1].ready
        /\ msg[m1].replies[1].kind = "not_ready"
        /\ msg[m2].pc = "done" /\ msg[m2].ready
        /\ msg[m2].replies[1].kind = "too_short"

\* C30: the audit write is attempted for every answer the handler goes on to
\* send, whether or not the send then succeeds, so a record can exist for an
\* answer that was not delivered; the response it stores is the first 2000
\* characters of that answer, never more, and so a prefix of it.
C30_RecordBeforeDelivery ==
    \A m \in Msgs :
        LET r == msg[m] IN
        /\ Answers(r) # {} => r.audit
        /\ \A k \in DOMAIN r.log :
              /\ Chars(r.log[k].response) <= 2000
              /\ \E j \in Answers(r) :
                    LET a == r.replies[j].text IN
                    /\ Take(a, Chars(r.log[k].response)) = r.log[k].response
                    /\ Chars(r.log[k].response) = Min({2000, Chars(a)})

C30_Witness ==
    \E m1, m2 \in Msgs :
        /\ msg[m1].log # <<>> /\ msg[m1].failed = "send"
        /\ \A j \in Answers(msg[m1]) : ~msg[m1].replies[j].ok
        /\ msg[m2].log # <<>>
        /\ Chars(msg[m2].log[1].response) = 2000
        /\ \E j \in Answers(msg[m2]) : Chars(msg[m2].replies[j].text) > 2000

\* the entries of the collection that come from a file of the corpus
CorpusEntries(d) == {j \in DOMAIN d.entries : d.entries[j].source # "none"}

\* C21: when the index holds nothing of a corpus, a retrieval that does not
\* raise gives no document, and the context the handler passes on with the
\* question is empty.
C21_EmptyCorpusEmptyContext ==
    \A m \in Msgs :
        (msg[m].retr /\ msg[m].failed # "retrieval" /\ CorpusEntries(kb.db) = {}) =>
            msg[m].context = <<>>

\* the device is there: the CPU always, XPU when torch and the Intel
\* extension for PyTorch both report it, CUDA when torch reports it
IsAvailable(d, h) ==
    CASE d = "cpu" -> TRUE
      [] d = "xpu" -> h.xpu /\ h.ipex
      [] d = "cuda" -> h.cuda
      [] OTHER -> FALSE

MostCapable(h) ==
    IF IsAvailable("xpu", h) THEN "xpu"
    ELSE IF IsAvailable("cuda", h) THEN "cuda" ELSE "cpu"

\* C25: whatever DEVICE is set to and whichever of XPU, IPEX and CUDA are
\* available, the device chosen (by the optimizer, by init_llm_pipeline and
\* by the init_llm_pipeline of chains_fixed.py) is the first available one
\* of xpu, cuda, cpu, and never one that is not available.
C25_MostCapableDevice ==
    \A d \in {host.optimal, host.device, host.fixed} :
        d # Pending => (d = MostCapable(host) /\ IsAvailable(d, host))

\* C22: a file of the corpus whose bytes are not UTF-8 is left out only
\* after the read was tried again under a fallback encoding (the last read
\* of a tool that did not give a text tried more than UTF-8).
C22_FallbackBeforeSkip ==
    (kb.last.enc \in {"cp1251", "binary"} /\ ~kb.last.read) =>
        Len(kb.last.tried) >= 2

\* C23: when load_documents_from_directory has ended, every document it
\* read that the collection can embed is in the index, whatever became of
\* the other documents.
C23_SkipOnlyFailingItem ==
    (kb.tool = "loader" /\ kb.pc = "done") =>
        \A j \in DOMAIN kb.documents :
            kb.documents[j].embeds =>
                \E e \in DOMAIN kb.db.entries :
                    kb.db.entries[e].id = kb.documents[j].id

\* C24: when a run of DocumentLoader has ended, with any outcome, the
\* directory holds the entries it held before the run or the entries of all
\* the documents read, never an empty or a partial collection in the place
\* of entries.
C24_RebuildAtomic ==
    (kb.tool = "loader" /\ kb.pc = "done") =>
        \/ kb.db = kb.prev
        \/ /\ kb.db.kind # Damaged.kind
           /\ kb.db.entries = kb.prev.entries
        \/ /\ kb.db.kind = "store"
           /\ kb.documents # <<>>
           /\ kb.db.entries = Entries(kb.documents)

\* C26: no entry of the index holds more than chunk_size characters, 1000
\* in the configuration the specification names.
C26_EntriesWithinChunkSize ==
    \A e \in DOMAIN kb.db.entries : Chars(kb.db.entries[e].text) <= 1000

\* C28: when reindex_chroma returns after it moved the database to the
\* backup, the directory holds the original content, or, no error having
\* occurred, an entry for every file of the knowledge base.
C28_RestoredOrReindexed ==
    (kb.tool = "reindex" /\ kb.pc = "done" /\ kb.moved) =>
        \/ kb.db = kb.prev
        \/ /\ ~kb.error
           /\ kb.db.kind = "store"
           /\ Len(kb.db.entries) = kb.files

\* the calls of initialize_resources and the worker threads it starts, in
\* the environment E: the sets from which the outcomes of the submission, of
\* the body of init_vector_store, of the model load, of the pipeline
\* construction and of the read of the persona file are drawn
Lifecycle(i, E) ==
    \/ \E started \in E.started : init_vector_store_call(i, started)
    \/ \E e \in E.index : init_vector_store_return(i, e)
    \/ initialize_resources_index(i)
    \/ init_qa_chain_call(i)
    \/ \E run \in (IF init[i].pc = "chain_building" THEN {NoLoad} ELSE E.load),
          pipelineOk \in E.pipeline, file \in E.persona, chainOk \in BOOLEAN :
           init_qa_chain_return(i, run, pipelineOk, file, chainOk)
    \/ initialize_resources_chain(i)

\* every outcome of every stage
AnyEnv == [started |-> BOOLEAN, index |-> IndexEnvs, load |-> LoadRuns,
           pipeline |-> BOOLEAN, persona |-> PersonaFiles]

\* one failure of the index stage (the embeddings model) and one of the QA
\* chain stage (the construction of the chain)
CoreEnv == [started |-> {TRUE},
            index |-> {e \in IndexEnvs : e.dir /\ e.build /\ e.left = "empty"},
            load |-> {[ok |-> TRUE, tries |-> <<"optimized">>]},
            pipeline |-> {TRUE}, persona |-> {"readable"}]

\* the outcomes of k sends, each drawn from S
SendsIn(k, S) == {t \in Sends(k) : \A j \in 1..k : t[j] \in S}

\* the ways the chain call and what follows it can go: the result of the
\* chain from R, the outcome of the audit write from A, the outcomes of the
\* sends from S
Generations(R, A, S) ==
    {g \in [out : R, auditOk : A, tg : SendsIn(3, S)] :
        g.out.kind # "result" => (g.auditOk /\ g.tg[2] = g.tg[3])}

\* the handling of message m by the pipeline: its text drawn from T, the
\* outcomes of the sends from S, the chain call and what follows from G
Messages(m, T, S, G) ==
    \/ \E text \in T, tg \in SendsIn(2, S) : handle_message(m, text, tg[1], tg[2])
    \/ \E out \in {"docs", "Exception"}, ok \in S :
           handle_message_retrieved(m, out, ok)
    \/ \E g \in G :
           handle_message_generated(m, g.out, g.auditOk, g.tg[1], g.tg[2], g.tg[3])

\* The bot as main() runs it, open to messages at any time: post_init awaits
\* initialize_resources, and a re-initialization is called after the previous
\* call has returned, so the calls do not overlap.  The index directory is
\* the one of a deployed bot, Telegram accepts what the pipeline sends, and
\* each stage of the initialization has one way to fail.
InitDeployed == Init /\ chroma_db = "index"

Next ==
    \/ \E i \in Inits : InFlight = {} /\ initialize_resources(i)
    \/ \E i \in Inits : Lifecycle(i, CoreEnv)
    \/ \E m \in Msgs : Messages(m, CoreTexts, {TRUE},
                                Generations(CoreResults, BOOLEAN, {TRUE}))
    \/ \E m \in Msgs, ok \in BOOLEAN : handle_message_replied(m, ok)

Spec == InitDeployed /\ [][Next]_vars

\* The same bot started where no index directory exists: the first call of
\* initialize_resources builds the index, with no corpus to build it from.
InitFresh == Init /\ chroma_db = "absent"

SpecFresh == InitFresh /\ [][Next]_vars

\* Spec with the scheduling the event loop gives: a send that was awaited
\* returns or raises (the HTTP request of the Telegram client is bounded by
\* its timeouts), so the handler waiting for it resumes.
SpecLive ==
    Spec /\ \A m \in Msgs : WF_vars(\E ok \in BOOLEAN : handle_message_replied(m, ok))

\* The resource lifecycle alone, under callers that do not wait for each
\* other: initialize_resources may be called while a call is in flight.
OverlapEnv == [CoreEnv EXCEPT !.started = BOOLEAN]

NextInit ==
    \/ \E i \in Inits : initialize_resources(i)
    \/ \E i \in Inits : Lifecycle(i, OverlapEnv)

SpecInit == Init /\ [][NextInit]_vars

\* The stages of the initialization in every environment, from every state
\* of the index directory, under calls that do not overlap.
NextStages ==
    \/ \E i \in Inits : InFlight = {} /\ initialize_resources(i)
    \/ \E i \in Inits : Lifecycle(i, AnyEnv)

SpecStages == Init /\ [][NextStages]_vars

\* The handler once the resources are READY, on the boundary texts and the
\* raw outputs that exercise the post-processing; the failures of the audit
\* write and of the sends that follow it are tried on the short answer.
\* InitReady is the state Spec is in after a first call of
\* initialize_resources has succeeded.
InitReady ==
    /\ retriever = "retriever"
    /\ qa_chain = "chain"
    /\ is_initialized = TRUE
    /\ initialization_error = NoError
    /\ vs_cache = <<"retriever">>
    /\ llm_pipe = "pipeline"
    /\ system_prompt = "persona"
    /\ chroma_db = "index"
    /\ init = [i \in Inits |->
                 IF i = 1 THEN [NewInit EXCEPT !.pc = "done", !.ret = "True",
                                               !.qa = TRUE, !.loaded = TRUE]
                 ELSE NewInit]
    /\ msg = [m \in Msgs |-> NewMsg]
    /\ host = CpuHost
    /\ kb = NewKb(OldStore)

ReadyGenerations ==
    {g \in Generations(Results, BOOLEAN, BOOLEAN) :
        (g.out.kind = "result" /\ g.out.text # <<Txt(5)>>) =>
            (g.auditOk /\ g.tg[1])}

NextReady == \E m \in Msgs : Messages(m, Texts, BOOLEAN, ReadyGenerations)

SpecReady == InitReady /\ [][NextReady]_vars

\* The choice of the device on every machine and under every setting of
\* DEVICE, before anything else of the bot has run.
InitDevice ==
    /\ retriever = None
    /\ qa_chain = None
    /\ is_initialized = FALSE
    /\ initialization_error = NoError
    /\ vs_cache = <<>>
    /\ llm_pipe = None
    /\ system_prompt = None
    /\ chroma_db = "absent"
    /\ init = [i \in Inits |-> NewInit]
    /\ msg = [m \in Msgs |-> NewMsg]
    /\ host \in Hosts
    /\ kb = NewKb(Absent)

NextDevice ==
    \/ IntelArcOptimizer
    \/ init_llm_pipeline_device
    \/ init_llm_pipeline_fixed

SpecDevice == InitDevice /\ [][NextDevice]_vars

\* One run of a corpus tool, on a directory that is missing or holds the
\* index of an earlier build, with or without an older backup beside it,
\* while the bot is not running.
InitCorpus ==
    /\ retriever = None
    /\ qa_chain = None
    /\ is_initialized = FALSE
    /\ initialization_error = NoError
    /\ vs_cache = <<>>
    /\ llm_pipe = None
    /\ system_prompt = None
    /\ init = [i \in Inits |-> NewInit]
    /\ msg = [m \in Msgs |-> NewMsg]
    /\ host = CpuHost
    /\ \E d \in {Absent, OldStore}, b \in {Absent, StaleStore} :
          kb = [NewKb(d) EXCEPT !.backup = b]
    /\ chroma_db = DbState(kb.db)

NextCorpus ==
    \/ \E fail \in {"none", "backup", "rmtree", "client"} : initialize_database(fail)
    \/ \E dirOk \in BOOLEAN, n \in 0..MaxFiles : load_documents_from_directory(dirOk, n)
    \/ \E f \in CorpusFiles : load_documents_read(f)
    \/ load_documents_add
    \/ \E fail \in {"none", "rmtree", "rename", "makedirs", "client", "knowledge"},
          n \in 0..MaxFiles : reindex_chroma(fail, n)
    \/ \E f \in CorpusFiles : reindex_chroma_file(f)
    \/ \E ok \in BOOLEAN : reindex_chroma_end(ok)

SpecCorpus == InitCorpus /\ [][NextCorpus]_vars

====
